---- MODULE Spec2Model ----
(***************************************************************************)
(* Model of package bitfield (src/bitfield.go): a fixed-length, MSB-first  *)
(* packed bit container over a byte slice.                                 *)
(*                                                                         *)
(* A byte is an integer 0..255.  A uint32 is a pair <<hi, lo>> of 16-bit   *)
(* limbs, so that lengths up to 2^32-1 and the wrap-around of uint32       *)
(* arithmetic are represented exactly with small integers.                 *)
(***************************************************************************)
EXTENDS Integers, Sequences, FiniteSets, TLC

VARIABLES
    mem,        \* the backing array of Bitfield.b: the caller's slice, or what make() allocated
    blen,       \* len(Bitfield.b): Bitfield.b is mem[0:blen] and aliases mem
    length,     \* Bitfield.length, a uint32
    pc,         \* "start": nothing constructed yet; "live": a Bitfield exists; "failed": the constructor panicked
    op,         \* the last call: its kind ("construct", "mutate", "query") and its panic, if any
    setCalls,   \* history: the indices given to the Set calls since New
    fresh       \* history: the Bitfield came from New and only Set and queries have run since

vars == <<mem, blen, length, pc, op, setCalls, fresh>>

\* ---------------------------------------------------------------- bounds

\* Largest bit length of the lengths drawn for New and NewBytes, and of the
\* indices drawn for the calls (indices go one past it).
MaxLen == 9

\* Largest caller buffer handed to NewBytes, in bytes: what the longest
\* length needs, so every shorter length also meets buffers that are too long.
MaxBuf == (MaxLen + 7) \div 8

\* Byte values the caller's buffer is filled with: all clear, all set, and
\* a pattern (0xA5) that is different from its bit-reversal's complement.
ByteVals == {0, 165, 255}

\* ---------------------------------------------------------------- uint32

Limb == 65536

\* The uint32 of a small natural number n (n < 2^31).
U32(n) == <<n \div Limb, n % Limb>>

\* The natural number of a uint32 below 2^31.
Val(u) == u[1] * Limb + u[2]

Lt32(x, y) == x[1] < y[1] \/ (x[1] = y[1] /\ x[2] < y[2])

\* x + y in uint32: the carry out of the high limb is dropped.
Add32(x, y) ==
    LET lo == x[2] + y[2]
        hi == x[1] + y[1] + (lo \div Limb)
    IN  <<hi % Limb, lo % Limb>>

\* x - y in uint32: the borrow out of the high limb is dropped.
Sub32(x, y) ==
    LET lo == x[2] - y[2]
        hi == x[1] - y[1] - (IF lo < 0 THEN 1 ELSE 0)
    IN  <<hi % Limb, lo % Limb>>

divMod32(x, d) ==
    LET dv  == Val(d)
        rem == (x[1] % dv) * Limb + x[2]
    IN  << <<x[1] \div dv, rem \div dv>>, U32(rem % dv) >>

\* ---------------------------------------------------------------- bytes

\* 2^k for a shift count k; 2^8 stands for every count that shifts a byte out.
Pow2(k) ==
    CASE k = 0 -> 1 [] k = 1 -> 2 [] k = 2 -> 4 [] k = 3 -> 8 [] k = 4 -> 16
      [] k = 5 -> 32 [] k = 6 -> 64 [] k = 7 -> 128 [] OTHER -> 256

\* x & y on bytes, bit by bit.
And8(x, y) ==
      (x % 2) * (y % 2)
    + 2 * (((x \div 2) % 2) * ((y \div 2) % 2))
    + 4 * (((x \div 4) % 2) * ((y \div 4) % 2))
    + 8 * (((x \div 8) % 2) * ((y \div 8) % 2))
    + 16 * (((x \div 16) % 2) * ((y \div 16) % 2))
    + 32 * (((x \div 32) % 2) * ((y \div 32) % 2))
    + 64 * (((x \div 64) % 2) * ((y \div 64) % 2))
    + 128 * ((x \div 128) * (y \div 128))

\* ^x on a byte.
Not8(x) == 255 - x

\* x | y on bytes.
Or8(x, y) == Not8(And8(Not8(x), Not8(y)))

\* byte(x) << k, k a uint32 below 8.
Shl8(x, k) == (x * Pow2(Val(k))) % 256

\* byte(x) >> k, k a uint32 below 8.
Shr8(x, k) == x \div Pow2(Val(k))

\* ---------------------------------------------------------------- the container

\* A Bitfield value: b is the slice mem[0:blen] of its backing array mem.
Bitfield(m, n, len) == [mem |-> m, blen |-> n, length |-> len]

\* The Bitfield of the current state.
this == Bitfield(mem, blen, length)

\* bf with its backing array replaced by m.
With(bf, m) == [bf EXCEPT !.mem = m]

NoErr == "none"
IndexOutOfBound == "index out of bound"
NotEnoughBytes == "not enough bytes in slice for specified length"
\* The Go runtime's panic on b.b[div] with div >= len(b.b).
IndexOutOfRange == "runtime error: index out of range"

Zero32 == U32(0)

\* A call record.
Did(kind, err) == [kind |-> kind, err |-> err]

NoCall == Did("none", NoErr)

countCache == <<
    0, 1, 1, 2, 1, 2, 2, 3, 1, 2, 2, 3, 2, 3, 3, 4,
    1, 2, 2, 3, 2, 3, 3, 4, 2, 3, 3, 4, 3, 4, 4, 5,
    1, 2, 2, 3, 2, 3, 3, 4, 2, 3, 3, 4, 3, 4, 4, 5,
    2, 3, 3, 4, 3, 4, 4, 5, 3, 4, 4, 5, 4, 5, 5, 6,
    1, 2, 2, 3, 2, 3, 3, 4, 2, 3, 3, 4, 3, 4, 4, 5,
    2, 3, 3, 4, 3, 4, 4, 5, 3, 4, 4, 5, 4, 5, 5, 6,
    2, 3, 3, 4, 3, 4, 4, 5, 3, 4, 4, 5, 4, 5, 5, 6,
    3, 4, 4, 5, 4, 5, 5, 6, 4, 5, 5, 6, 5, 6, 6, 7,
    1, 2, 2, 3, 2, 3, 3, 4, 2, 3, 3, 4, 3, 4, 4, 5,
    2, 3, 3, 4, 3, 4, 4, 5, 3, 4, 4, 5, 4, 5, 5, 6,
    2, 3, 3, 4, 3, 4, 4, 5, 3, 4, 4, 5, 4, 5, 5, 6,
    3, 4, 4, 5, 4, 5, 5, 6, 4, 5, 5, 6, 5, 6, 6, 7,
    2, 3, 3, 4, 3, 4, 4, 5, 3, 4, 4, 5, 4, 5, 5, 6,
    3, 4, 4, 5, 4, 5, 5, 6, 4, 5, 5, 6, 5, 6, 6, 7,
    3, 4, 4, 5, 4, 5, 5, 6, 4, 5, 5, 6, 5, 6, 6, 7,
    4, 5, 5, 6, 5, 6, 6, 7, 5, 6, 6, 7, 6, 7, 7, 8
>>

\* ---------------------------------------------------------------- inputs

\* The lengths given to New and NewBytes.
Lengths == { U32(n) : n \in 0..MaxLen }

\* The indices and scan starts given to the calls: valid ones, the length
\* itself and one past it.
Indices == { U32(n) : n \in 0..(MaxLen + 1) }

\* The lengths 2^32-7 .. 2^32-1.
WrapLengths == { <<Limb - 1, Limb - 1 - k>> : k \in 0..6 }

RECURSIVE SeqsOver(_, _)
SeqsOver(S, n) ==
    IF n = 0 THEN { <<>> }
    ELSE { Append(q, x) : q \in SeqsOver(S, n - 1), x \in S }

\* The slices a caller owns before it constructs anything.
Buffers == UNION { SeqsOver(ByteVals, n) : n \in 0..MaxBuf }

\* ---------------------------------------------------------------- construction

\* make([]byte, n)
Make(n) == [k \in 1..n |-> 0]

\* (length+7)/8 of New, in uint32.
NewSize(len) == divMod32(Add32(len, U32(7)), U32(8))[1]

\* What New(length) returns.
NewOn(len) == Bitfield(Make(Val(NewSize(len))), Val(NewSize(len)), len)

calcSize(len) ==
    LET dm == divMod32(len, U32(8))
        nBytes == dm[1]
        nLastBits == dm[2]
        lastByteIncomplete == nLastBits # Zero32
    IN  << IF lastByteIncomplete THEN Add32(nBytes, U32(1)) ELSE nBytes, nLastBits >>

\* Mutant of NotEnough: the size check off by one (<=).
NotEnoughOrEqual(n, nBytes) == ~Lt32(nBytes, U32(n))

\* uint32(len(b)) < nBytes
NotEnough(n, nBytes) == Lt32(U32(n), nBytes)

\* The byte NewBytes masks, b[len(b)-1], as a position of buf counted from 1.
MaskedAt(buf, nBytes) == Len(buf)

\* v & ^(0xff >> nLastBits)
MaskLast(v, nLastBits) == And8(v, Not8(Shr8(255, nLastBits)))

\* The panic of NewBytes(buf, length), if any, the caller's buffer after it
\* and the Bitfield it returns (bf is meaningful only without a panic).
NewBytesOn(buf, len) ==
    LET cs == calcSize(len)
        masked == IF cs[2] # Zero32
                  THEN [buf EXCEPT ![MaskedAt(buf, cs[1])] = MaskLast(@, cs[2])]
                  ELSE buf
    IN  IF NotEnough(Len(buf), cs[1])
        THEN [err |-> NotEnoughBytes, mem |-> buf, bf |-> Bitfield(buf, 0, Zero32)]
        ELSE [err |-> NoErr, mem |-> masked, bf |-> Bitfield(masked, Val(cs[1]), len)]

New(len) ==
    /\ pc = "start"
    /\ mem' = NewOn(len).mem
    /\ blen' = NewOn(len).blen
    /\ length' = NewOn(len).length
    /\ pc' = "live"
    /\ op' = Did("construct", NoErr)
    /\ setCalls' = {}
    /\ fresh' = TRUE

NewBytes(len) ==
    /\ pc = "start"
    /\ IF NewBytesOn(mem, len).err # NoErr
       THEN /\ pc' = "failed"
            /\ mem' = NewBytesOn(mem, len).mem
            /\ UNCHANGED <<blen, length>>
       ELSE /\ pc' = "live"
            /\ mem' = NewBytesOn(mem, len).bf.mem
            /\ blen' = NewBytesOn(mem, len).bf.blen
            /\ length' = NewBytesOn(mem, len).bf.length
    /\ op' = Did("construct", NewBytesOn(mem, len).err)
    /\ setCalls' = {}
    /\ fresh' = FALSE

\* ---------------------------------------------------------------- bit access

\* What Len() returns.
LenOn(bf) == bf.length

\* Mutant of checkIndex: the bound check off by one (i > b.Len()).
checkIndexPastEnd(bf, i) == IF Lt32(LenOn(bf), i) THEN IndexOutOfBound ELSE NoErr

checkIndex(bf, i) == IF ~Lt32(i, LenOn(bf)) THEN IndexOutOfBound ELSE NoErr

\* Mutant of SetByte: least-significant-bit-first (1 << mod).
SetByteLsbFirst(v, mod) == Or8(v, Shl8(1, mod))

\* v | 1 << (7 - mod)
SetByte(v, mod) == Or8(v, Shl8(1, Sub32(U32(7), mod)))

\* Mutant of ClearByte: the complement of the mask is missing.
ClearByteNoComplement(v, mod) == And8(v, Shl8(1, Sub32(U32(7), mod)))

\* v & ^(1 << (7 - mod))
ClearByte(v, mod) == And8(v, Not8(Shl8(1, Sub32(U32(7), mod))))

\* (v & (1 << (7 - mod))) > 0
TestByte(v, mod) == And8(v, Shl8(1, Sub32(U32(7), mod))) > 0

\* The panic of Set(i), if any, and the backing array after it.
SetOn(bf, i) ==
    LET dm == divMod32(i, U32(8))
    IN  IF checkIndex(bf, i) # NoErr THEN [err |-> checkIndex(bf, i), mem |-> bf.mem]
        ELSE IF ~Lt32(dm[1], U32(bf.blen)) THEN [err |-> IndexOutOfRange, mem |-> bf.mem]
        ELSE [err |-> NoErr, mem |-> [bf.mem EXCEPT ![Val(dm[1]) + 1] = SetByte(@, dm[2])]]

\* The panic of Clear(i), if any, and the backing array after it.
ClearOn(bf, i) ==
    LET dm == divMod32(i, U32(8))
    IN  IF checkIndex(bf, i) # NoErr THEN [err |-> checkIndex(bf, i), mem |-> bf.mem]
        ELSE IF ~Lt32(dm[1], U32(bf.blen)) THEN [err |-> IndexOutOfRange, mem |-> bf.mem]
        ELSE [err |-> NoErr, mem |-> [bf.mem EXCEPT ![Val(dm[1]) + 1] = ClearByte(@, dm[2])]]

\* The panic of SetTo(i, value), if any, and the backing array after it.
SetToOn(bf, i, value) ==
    IF checkIndex(bf, i) # NoErr THEN [err |-> checkIndex(bf, i), mem |-> bf.mem]
    ELSE IF value THEN SetOn(bf, i) ELSE ClearOn(bf, i)

\* The panic of Test(i), if any, and what it returns.
TestOn(bf, i) ==
    LET dm == divMod32(i, U32(8))
    IN  IF checkIndex(bf, i) # NoErr THEN [err |-> checkIndex(bf, i), ok |-> FALSE]
        ELSE IF ~Lt32(dm[1], U32(bf.blen)) THEN [err |-> IndexOutOfRange, ok |-> FALSE]
        ELSE [err |-> NoErr, ok |-> TestByte(bf.mem[Val(dm[1]) + 1], dm[2])]

\* The backing array after ClearAll().
ClearAllOn(bf) == [k \in DOMAIN bf.mem |-> IF k <= bf.blen THEN 0 ELSE bf.mem[k]]

Set(i) ==
    /\ pc = "live"
    /\ mem' = SetOn(this, i).mem
    /\ op' = Did("mutate", SetOn(this, i).err)
    /\ setCalls' = IF fresh /\ SetOn(this, i).err = NoErr
                   THEN setCalls \cup {Val(i)} ELSE setCalls
    /\ UNCHANGED <<blen, length, pc, fresh>>

Clear(i) ==
    /\ pc = "live"
    /\ mem' = ClearOn(this, i).mem
    /\ op' = Did("mutate", ClearOn(this, i).err)
    /\ fresh' = (fresh /\ ClearOn(this, i).err # NoErr)
    /\ setCalls' = IF fresh' THEN setCalls ELSE {}
    /\ UNCHANGED <<blen, length, pc>>

SetTo(i, value) ==
    /\ pc = "live"
    /\ mem' = SetToOn(this, i, value).mem
    /\ op' = Did("mutate", SetToOn(this, i, value).err)
    /\ fresh' = (fresh /\ SetToOn(this, i, value).err # NoErr)
    /\ setCalls' = IF fresh' THEN setCalls ELSE {}
    /\ UNCHANGED <<blen, length, pc>>

Test(i) ==
    /\ pc = "live"
    /\ op' = Did("query", TestOn(this, i).err)
    /\ UNCHANGED <<mem, blen, length, pc, setCalls, fresh>>

ClearAll ==
    /\ pc = "live"
    /\ mem' = ClearAllOn(this)
    /\ op' = Did("mutate", NoErr)
    /\ fresh' = FALSE
    /\ setCalls' = {}
    /\ UNCHANGED <<blen, length, pc>>

\* ---------------------------------------------------------------- scans

RECURSIVE FirstSetFrom(_, _)
FirstSetFrom(bf, i) ==
    IF ~Lt32(i, bf.length) THEN [err |-> NoErr, n |-> Zero32, ok |-> FALSE]
    ELSE IF TestOn(bf, i).err # NoErr
         THEN [err |-> TestOn(bf, i).err, n |-> Zero32, ok |-> FALSE]
    ELSE IF TestOn(bf, i).ok THEN [err |-> NoErr, n |-> i, ok |-> TRUE]
    ELSE FirstSetFrom(bf, Add32(i, U32(1)))

RECURSIVE FirstClearFrom(_, _)
FirstClearFrom(bf, i) ==
    IF ~Lt32(i, bf.length) THEN [err |-> NoErr, n |-> Zero32, ok |-> FALSE]
    ELSE IF TestOn(bf, i).err # NoErr
         THEN [err |-> TestOn(bf, i).err, n |-> Zero32, ok |-> FALSE]
    ELSE IF ~TestOn(bf, i).ok THEN [err |-> NoErr, n |-> i, ok |-> TRUE]
    ELSE FirstClearFrom(bf, Add32(i, U32(1)))

\* Mutant of FirstSetOn: the loop entered at i = start + 1.
FirstSetAfter(bf, start) == FirstSetFrom(bf, Add32(start, U32(1)))

\* What FirstSet(start) returns: its loop, entered at i = start.
FirstSetOn(bf, start) == FirstSetFrom(bf, start)

\* What FirstClear(start) returns: its loop, entered at i = start.
FirstClearOn(bf, start) == FirstClearFrom(bf, start)

FirstSet(start) ==
    /\ pc = "live"
    /\ op' = Did("query", FirstSetOn(this, start).err)
    /\ UNCHANGED <<mem, blen, length, pc, setCalls, fresh>>

FirstClear(start) ==
    /\ pc = "live"
    /\ op' = Did("query", FirstClearOn(this, start).err)
    /\ UNCHANGED <<mem, blen, length, pc, setCalls, fresh>>

\* ---------------------------------------------------------------- counting and export

\* What Bytes() returns: the slice b.b.
BytesOn(bf) == SubSeq(bf.mem, 1, bf.blen)

RECURSIVE CountFrom(_, _, _)
CountFrom(bs, k, total) ==
    IF k > Len(bs) THEN total
    ELSE CountFrom(bs, k + 1, Add32(total, U32(countCache[bs[k] + 1])))

\* What Count() returns.
CountOn(bf) == CountFrom(BytesOn(bf), 1, Zero32)

\* What All() returns.
AllOn(bf) == (CountOn(bf) = bf.length)

hextable == <<"0", "1", "2", "3", "4", "5", "6", "7",
              "8", "9", "a", "b", "c", "d", "e", "f">>

\* Mutant of HexByte: the low nibble first.
HexByteSwapped(v) == << hextable[And8(v, 15) + 1], hextable[(v \div 16) + 1] >>

\* The two characters hex.EncodeToString writes for byte v.
HexByte(v) == << hextable[(v \div 16) + 1], hextable[And8(v, 15) + 1] >>

RECURSIVE EncodeToString(_)
EncodeToString(src) ==
    IF src = <<>> THEN <<>>
    ELSE HexByte(Head(src)) \o EncodeToString(Tail(src))

\* What Hex() returns, as a sequence of characters.
HexOn(bf) == EncodeToString(BytesOn(bf))

\* The argument-less queries return CountOn(this), AllOn(this), HexOn(this),
\* BytesOn(this) and LenOn(this); none of them panics or writes anything.
Count ==
    /\ pc = "live"
    /\ op' = Did("query", NoErr)
    /\ UNCHANGED <<mem, blen, length, pc, setCalls, fresh>>

All ==
    /\ pc = "live"
    /\ op' = Did("query", NoErr)
    /\ UNCHANGED <<mem, blen, length, pc, setCalls, fresh>>

Hex ==
    /\ pc = "live"
    /\ op' = Did("query", NoErr)
    /\ UNCHANGED <<mem, blen, length, pc, setCalls, fresh>>

Bytes ==
    /\ pc = "live"
    /\ op' = Did("query", NoErr)
    /\ UNCHANGED <<mem, blen, length, pc, setCalls, fresh>>

LenCall ==
    /\ pc = "live"
    /\ op' = Did("query", NoErr)
    /\ UNCHANGED <<mem, blen, length, pc, setCalls, fresh>>

\* ---------------------------------------------------------------- specifications

Init ==
    /\ mem \in Buffers
    /\ blen = 0
    /\ length = Zero32
    /\ pc = "start"
    /\ op = NoCall
    /\ setCalls = {}
    /\ fresh = FALSE

Next ==
    \/ \E len \in Lengths : New(len)
    \/ \E len \in Lengths : NewBytes(len)
    \/ \E i \in Indices : Set(i)
    \/ \E i \in Indices : Clear(i)
    \/ \E i \in Indices, value \in BOOLEAN : SetTo(i, value)
    \/ \E i \in Indices : Test(i)
    \/ \E start \in Indices : FirstSet(start)
    \/ \E start \in Indices : FirstClear(start)
    \/ ClearAll
    \/ Count
    \/ All
    \/ Hex
    \/ Bytes
    \/ LenCall

Spec == Init /\ [][Next]_vars

\* The same program with New also given the lengths at the top of uint32.
NextWide ==
    \/ Next
    \/ \E len \in WrapLengths : New(len)

SpecWide == Init /\ [][NextWide]_vars

\* ---------------------------------------------------------------- properties

\* The bit length of the current Bitfield as a number (lengths below 2^31).
L == Val(length)

\* ceil(len / 8) as a number.
CeilBytes(len) == len[1] * (Limb \div 8) + ((len[2] + 7) \div 8)

\* Bit k of a byte sequence, most significant bit of byte 0 first.
MsbBit(bytes, k) == (bytes[(k \div 8) + 1] \div Pow2(7 - (k % 8))) % 2 = 1

\* Test(k) returns true, without a panic.
TestsTrue(bf, k) == TestOn(bf, U32(k)) = [err |-> NoErr, ok |-> TRUE]

\* Test(k) returns false, without a panic.
TestsFalse(bf, k) == TestOn(bf, U32(k)) = [err |-> NoErr, ok |-> FALSE]

\* The valid indices of the current Bitfield.
Valid == 0..(L - 1)

\* C1: for every bit length L that is not a multiple of 8, the low-order
\* (8 - L mod 8) bits of byte ceil(L/8)-1 of the buffer are 0 after either
\* constructor and after every later Set, Clear, SetTo and ClearAll.
C1_PaddingInvariant ==
    (pc = "live" /\ L % 8 # 0) => mem[CeilBytes(length)] % Pow2(8 - (L % 8)) = 0

\* C2: in every state reachable from either constructor, Count() equals the
\* number of indices i in [0, L) for which Test(i) is true.
C2_CountConsistency ==
    pc = "live" => CountOn(this) = U32(Cardinality({ k \in Valid : TestsTrue(this, k) }))

\* C3: after New(L) followed by Set(i) for exactly the i in S, Test(i)
\* returns true if and only if i is in S, for every i in [0, L).
C3_RoundTrip ==
    (pc = "live" /\ fresh) =>
        \A k \in Valid : IF k \in setCalls THEN TestsTrue(this, k) ELSE TestsFalse(this, k)

\* C3 witness: a two-byte Bitfield from New with bits set in both bytes and
\* bits left clear in both.
C3_Witness ==
    /\ pc = "live" /\ fresh /\ L = 9
    /\ setCalls = {0, 5, 8}

\* The lowercase hexadecimal digit of d in 0..15.
LowerHexDigit(d) ==
    CASE d = 0 -> "0" [] d = 1 -> "1" [] d = 2 -> "2" [] d = 3 -> "3"
      [] d = 4 -> "4" [] d = 5 -> "5" [] d = 6 -> "6" [] d = 7 -> "7"
      [] d = 8 -> "8" [] d = 9 -> "9" [] d = 10 -> "a" [] d = 11 -> "b"
      [] d = 12 -> "c" [] d = 13 -> "d" [] d = 14 -> "e" [] d = 15 -> "f"

\* The sum of 2^(7-m) over the m in from..7 with 8k+m in S.
RECURSIVE PackedFrom(_, _, _)
PackedFrom(S, k, from) ==
    IF from > 7 THEN 0
    ELSE (IF 8 * k + from \in S THEN Pow2(7 - from) ELSE 0) + PackedFrom(S, k, from + 1)

\* Byte k of the MSB-first packing of the index set S.
PackedByte(S, k) == PackedFrom(S, k, 0)

\* The Bitfield after New(len) and Set(i) for the i of the sequence is.
RECURSIVE SetEach(_, _)
SetEach(bf, is) ==
    IF is = <<>> THEN bf
    ELSE SetEach(With(bf, SetOn(bf, U32(Head(is))).mem), Tail(is))

\* C4: after New(L) and Set of exactly the bits in S, byte k of Bytes() is
\* the sum of 2^(7-m) over the m in 0..7 with 8k+m in S, and Hex() is the
\* two lowercase hex digits of each of the ceil(L/8) bytes in byte order;
\* for L = 20 and S = {0, 7, 8, 19} it is "818010".
C4_LayoutAndHex ==
    /\ (pc = "live" /\ fresh) =>
          /\ Len(BytesOn(this)) = CeilBytes(length)
          /\ \A k \in 0..(CeilBytes(length) - 1) :
                /\ BytesOn(this)[k + 1] = PackedByte(setCalls, k)
                /\ HexOn(this)[2 * k + 1] = LowerHexDigit(PackedByte(setCalls, k) \div 16)
                /\ HexOn(this)[2 * k + 2] = LowerHexDigit(PackedByte(setCalls, k) % 16)
          /\ Len(HexOn(this)) = 2 * CeilBytes(length)
    /\ HexOn(SetEach(NewOn(U32(20)), <<0, 7, 8, 19>>)) = <<"8", "1", "8", "0", "1", "0">>

\* C4 witness: bits 0, 7 and 8 set in a 9-bit Bitfield from New: "8180".
C4_Witness ==
    /\ pc = "live" /\ fresh /\ L = 9
    /\ setCalls = {0, 7, 8}
    /\ HexOn(this) = <<"8", "1", "8", "0">>

\* C5: for every length L including 0 and every index i >= L, each of
\* Test(i), Set(i), Clear(i), SetTo(i, true) and SetTo(i, false) panics with
\* "index out of bound" and leaves the buffer and bit length unchanged; for
\* every i < L none of them panics with it.
C5_BoundsEnforcement ==
    pc = "live" =>
        \A i \in Indices :
            LET outcomes == { TestOn(this, i).err, SetOn(this, i).err, ClearOn(this, i).err,
                              SetToOn(this, i, TRUE).err, SetToOn(this, i, FALSE).err }
            IN  IF Val(i) >= L
                THEN /\ outcomes = { IndexOutOfBound }
                     /\ SetOn(this, i).mem = mem
                     /\ ClearOn(this, i).mem = mem
                     /\ SetToOn(this, i, TRUE).mem = mem
                     /\ SetToOn(this, i, FALSE).mem = mem
                ELSE IndexOutOfBound \notin outcomes

\* C5 witness: a call on a Bitfield of length 0 has panicked with "index out
\* of bound".
C5_Witness == pc = "live" /\ L = 0 /\ op.err = IndexOutOfBound

\* The smallest index in [start, L) whose bit has the given value, as the
\* scans report it; not found when there is none.
Smallest(start, value) ==
    LET hits == { k \in Valid : k >= start /\ MsbBit(BytesOn(this), k) = value }
    IN  IF hits = {} THEN [err |-> NoErr, n |-> Zero32, ok |-> FALSE]
        ELSE [err |-> NoErr, ok |-> TRUE,
              n |-> U32(CHOOSE k \in hits : \A j \in hits : k <= j)]

\* C6: in every reachable state and for every start, FirstSet(start) returns
\* the smallest index i with start <= i < L whose bit is set, and not found
\* when there is none; FirstClear(start) does the same for clear bits; a
\* start >= L gives not found without a panic.
C6_ScanCorrectness ==
    pc = "live" =>
        \A start \in Indices :
            /\ FirstSetOn(this, start) = Smallest(Val(start), TRUE)
            /\ FirstClearOn(this, start) = Smallest(Val(start), FALSE)

\* C6 witness: after a query on a 9-bit Bitfield whose only set bits are 0
\* and 8, so that FirstSet(1) crosses the byte boundary and FirstClear(8)
\* finds nothing.
C6_Witness ==
    /\ pc = "live" /\ L = 9 /\ op = Did("query", NoErr)
    /\ BytesOn(this) = <<128, 128>>
    /\ FirstSetOn(this, U32(1)) = [err |-> NoErr, n |-> U32(8), ok |-> TRUE]
    /\ FirstClearOn(this, U32(8)) = [err |-> NoErr, n |-> Zero32, ok |-> FALSE]

\* C7: NewBytes(buffer, length) panics with "not enough bytes" exactly when
\* len(buffer) < ceil(length/8), for every length including 0 and every
\* buffer size including empty; when it panics there is no Bitfield and no
\* byte of the caller's buffer has been modified.
C7_ImportSizeCheck ==
    /\ [](pc = "start" =>
            \A len \in Lengths :
                /\ (NewBytesOn(mem, len).err = NotEnoughBytes) <=> (Len(mem) < CeilBytes(len))
                /\ NewBytesOn(mem, len).err \in { NotEnoughBytes, NoErr }
                /\ NewBytesOn(mem, len).err = NotEnoughBytes => NewBytesOn(mem, len).mem = mem)
    /\ [][(pc = "start" /\ op'.err # NoErr) =>
            /\ pc' = "failed" /\ op'.err = NotEnoughBytes
            /\ mem' = mem /\ blen' = 0 /\ length' = Zero32]_vars
    /\ [](pc = "failed" => op.err = NotEnoughBytes /\ \E len \in Lengths : Len(mem) < CeilBytes(len))
    /\ [](pc = "live" => Len(mem) >= CeilBytes(length))

\* C7 witness: NewBytes has panicked on a buffer one byte short.
C7_Witness == pc = "failed" /\ Len(mem) = 1 /\ op.err = NotEnoughBytes

\* C8: the buffer holds exactly ceil(length/8) bytes after New(length) for
\* every uint32 length (New always succeeds and the bytes are all zero),
\* after NewBytes with any accepted buffer, and after every later call.
C8_InvariantI1 ==
    pc = "live" =>
        /\ blen = CeilBytes(length)
        /\ Len(BytesOn(this)) = CeilBytes(length)
        /\ (fresh /\ setCalls = {}) => \A k \in 1..blen : BytesOn(this)[k] = 0

\* C9: in every reachable state and for every valid index i, Test(i) is true
\* after Set(i) and false after Clear(i), SetTo(i, v) leaves the state of
\* Set(i) when v is true and of Clear(i) when v is false, Test(j) is
\* unchanged for every other valid j, and the bit length and the buffer size
\* are unchanged.
C9_SingleBitFrame ==
    /\ [](pc = "live" =>
            \A k \in Valid :
                LET afterSet == With(this, SetOn(this, U32(k)).mem)
                    afterClear == With(this, ClearOn(this, U32(k)).mem)
                IN  /\ SetOn(this, U32(k)).err = NoErr
                    /\ ClearOn(this, U32(k)).err = NoErr
                    /\ TestsTrue(afterSet, k)
                    /\ TestsFalse(afterClear, k)
                    /\ SetToOn(this, U32(k), TRUE) = SetOn(this, U32(k))
                    /\ SetToOn(this, U32(k), FALSE) = ClearOn(this, U32(k))
                    /\ Len(afterSet.mem) = Len(mem)
                    /\ Len(afterClear.mem) = Len(mem)
                    /\ \A j \in Valid \ {k} :
                          /\ TestOn(afterSet, U32(j)) = TestOn(this, U32(j))
                          /\ TestOn(afterClear, U32(j)) = TestOn(this, U32(j)))
    /\ [][pc = "live" => (blen' = blen /\ length' = length /\ Len(mem') = Len(mem))]_vars

\* C9 witness: after a successful mutation of a 9-bit Bitfield on which a
\* Clear has run, with set and clear bits in both bytes.
C9_Witness ==
    /\ pc = "live" /\ L = 9 /\ ~fresh /\ op = Did("mutate", NoErr)
    /\ BytesOn(this) = <<165, 128>>

\* C10: a successful NewBytes(buffer, length) changes nothing in the
\* caller's storage except the low-order (8 - length mod 8) bits of byte
\* ceil(length/8)-1 when length is not a multiple of 8; every other byte,
\* including those beyond the first ceil(length/8), keeps its value, and
\* Test(i) is bit i (MSB first) of the buffer as supplied for every i < length.
C10_ImportFrame ==
    [][(pc = "start" /\ pc' = "live" /\ ~fresh') =>
          LET n == CeilBytes(length')
              r == Val(length') % 8
          IN  /\ Len(mem') = Len(mem)
              /\ \A k \in 1..Len(mem) :
                    IF k = n /\ r # 0
                    THEN mem'[k] \div Pow2(8 - r) = mem[k] \div Pow2(8 - r)
                    ELSE mem'[k] = mem[k]
              /\ \A i \in 0..(Val(length') - 1) :
                    MsbBit(mem, i) <=> TestsTrue(this', i)]_vars

====
